---------------------------- MODULE Spec2Model ----------------------------
(***************************************************************************)
(* A model of the crawl-aggregate-persist pipeline of the repository       *)
(* annuaire-bio-local-database:                                            *)
(*   - scripts/scrape_produits_bio.py: the paginated search client         *)
(*     (fetch_places_for_keyword), the normalizer (parse_city_postal,      *)
(*     extract_place_data) and the one-shot scraper (run_scraper);         *)
(*   - scripts/run_all_scraper.py: the orchestrator, the per-area          *)
(*     aggregator and the incremental sink (main);                         *)
(*   - scripts/scraper_producteurs.py: the scraper of producers (main).    *)
(*                                                                         *)
(* Text that the code takes apart (addresses, names) is a sequence of      *)
(* one-character strings; text that it only compares or concatenates       *)
(* (place ids, URLs, keywords, type tags) is a TLA+ string.                *)
(*                                                                         *)
(* The specifications share the variables:                                 *)
(*   Spec          a sequence of runs of run_all_scraper.main on one table *)
(*   SpecInterrupt the same, main interrupted while it creates the table   *)
(*                 as well                                                 *)
(*   SpecRun       one run of main that nothing interrupts from outside    *)
(*   SpecScenario  runs of main on one city, one keyword and one hit       *)
(*   SpecSearch    one call of fetch_places_for_keyword against an         *)
(*                 upstream that answers each request as it likes          *)
(*   SpecNorm      one call of extract_place_data on a bounded raw hit     *)
(*   SpecProd      a sequence of runs of scraper_producteurs.main on one   *)
(*                 table                                                   *)
(*   SpecScrape    one call of scrape_produits_bio.run_scraper             *)
(***************************************************************************)
EXTENDS Integers, Sequences, FiniteSets, TLC

VARIABLES
    \* ---- run_all_scraper.main ----
    pc,             \* position of main: check, prepare, key, load, fetch, flush,
                    \* done, aborted (SystemExit), crashed (exception or kill)
    run,            \* number of the current run of main on this table
    prev,           \* how the previous run ended: none, done, aborted, crashed
    cities,         \* main's cities, read from cities.txt
    keywords,       \* main's keywords, read from keywords.txt
    upstream,       \* upstream[c][k]: what the API returns for keywords[k] in cities[c],
                    \* by the name of the outcome
    dirExists,      \* data/ exists
    fileExists,     \* data/all_places.csv exists
    file,           \* data/all_places.csv as its sequence of csv records
    file0,          \* the file as the current run found it
    existing_urls,  \* main's existing_urls
    city_data,      \* main's city_data, a dict in insertion order
    ci, ki,         \* index of the current city, of the current keyword
    fi,             \* number of entries of city_data the append pass has written, plus one
                    \* (0 outside the append pass)
    events,         \* what the current run has done so far, in order: the searches
                    \* (with the requests each issued), the waits of line 130, the
                    \* append passes completed
    \* ---- fetch_places_for_keyword ----
    spc,            \* position of the client: idle, request, sleep, returned, raised
    params,         \* the params of the next request
    all_results,    \* the client's all_results
    next_token,     \* the client's next_token
    requests,       \* the requests issued so far, each with the time it was sent
    responses,      \* the responses received so far, each with the time it arrived
    clock,          \* time, in tenths of a second
    \* ---- extract_place_data ----
    npc,            \* position of the call: idle, call, returned, raised
    place,          \* the raw hit
    data,           \* the dict returned
    \* ---- scraper_producteurs.main ----
    ppc,            \* position of main: import, check, prepare, header, search,
                    \* done, aborted (SystemExit), crashed (exception or kill)
    prun,           \* number of the current run of main on this table
    pupstream,      \* pupstream[c][k]: what the API returns for keyword k in city c,
                    \* by the name of the outcome
    pdirExists,     \* data/ exists
    pfileExists,    \* data/producteurs.csv exists
    pfile,          \* data/producteurs.csv as its sequence of csv records
    pseen,          \* main's seen
    pci, pki,       \* index of the current city, of the current keyword
    \* ---- scrape_produits_bio.run_scraper ----
    rpc,            \* position of the call: key, search, dedup, filter, write,
                    \* returned, aborted (SystemExit), crashed (exception)
    rupstream,      \* rupstream[k]: what the API returns for keywords[k], by the
                    \* name of the outcome
    rki,            \* index of the current keyword
    all_places,     \* run_scraper's all_places
    unique,         \* run_scraper's unique, its values in insertion order
    filtered,       \* run_scraper's filtered
    out_file,       \* the file at output_path as its sequence of csv records
    count           \* the value returned

mainVars   == <<pc, run, prev, cities, keywords, upstream, dirExists, fileExists, file,
                file0, existing_urls, city_data, ci, ki, fi, events>>
searchVars == <<spc, params, all_results, next_token, requests, responses, clock>>
normVars   == <<npc, place, data>>
prodVars   == <<ppc, prun, pupstream, pdirExists, pfileExists, pfile, pseen, pci, pki>>
scrapeVars == <<rpc, rupstream, rki, all_places, unique, filtered, out_file, count>>
vars       == <<mainVars, searchVars, normVars, prodVars, scrapeVars>>

-----------------------------------------------------------------------------
(* Bounds of the model.                                                    *)

\* number of cities in cities.txt
NumAreas == 2
\* number of runs of main on the same table
MaxRuns == 2
\* length of the longest formatted_address SpecNorm draws
MaxAddrLen == 3
\* number of requests after which the model's upstream stops answering
MaxRequests == 4

-----------------------------------------------------------------------------
(* Python's str methods on sequences of characters.                        *)

IsSpace(c) == c \in {" ", "\t"}

RECURSIVE LStrip(_)
LStrip(s) == IF s # <<>> /\ IsSpace(Head(s)) THEN LStrip(Tail(s)) ELSE s

RECURSIVE RStrip(_)
RStrip(s) ==
    IF s # <<>> /\ IsSpace(s[Len(s)]) THEN RStrip(SubSeq(s, 1, Len(s) - 1)) ELSE s

\* s.strip()
Strip(s) == RStrip(LStrip(s))

\* s.split(","): at least one part, the empty ones kept
RECURSIVE SplitComma(_)
SplitComma(s) ==
    IF \A i \in 1..Len(s) : s[i] # ","
    THEN <<s>>
    ELSE LET i == CHOOSE j \in 1..Len(s) :
                      s[j] = "," /\ \A m \in 1..(j - 1) : s[m] # ","
         IN  <<SubSeq(s, 1, i - 1)>> \o SplitComma(SubSeq(s, i + 1, Len(s)))

\* s.split(): the maximal runs of non-space characters, none of them empty
RECURSIVE SplitWs(_)
SplitWs(s) ==
    LET t == LStrip(s) IN
    IF t = <<>>
    THEN <<>>
    ELSE LET n == IF \E j \in 1..Len(t) : IsSpace(t[j])
                  THEN (CHOOSE j \in 1..Len(t) :
                            IsSpace(t[j]) /\ \A m \in 1..(j - 1) : ~IsSpace(t[m])) - 1
                  ELSE Len(t)
         IN  <<SubSeq(t, 1, n)>> \o SplitWs(SubSeq(t, n + 1, Len(t)))

\* " ".join(tokens)
RECURSIVE JoinSpace(_)
JoinSpace(tokens) ==
    IF tokens = <<>> THEN <<>>
    ELSE IF Len(tokens) = 1 THEN tokens[1]
    ELSE tokens[1] \o <<" ">> \o JoinSpace(Tail(tokens))

\* sep.join(items) for a sequence of strings
RECURSIVE Join(_, _)
Join(sep, items) ==
    IF items = <<>> THEN ""
    ELSE IF Len(items) = 1 THEN items[1]
    ELSE items[1] \o sep \o Join(sep, Tail(items))

\* d.get(k, default)
Get(d, k, default) == IF k \in DOMAIN d THEN d[k] ELSE default

-----------------------------------------------------------------------------
(* scrape_produits_bio.py: the normalizer.                                 *)

\* What a call that raised leaves in place of its result.
Raised(exc) == [exc |-> exc]
IsRaised(r) == "exc" \in DOMAIN r

\* the code and the city looked for in the last segment, not the one before
parse_city_postal_last_segment(formatted_address) ==
    LET parts == [i \in 1..Len(SplitComma(formatted_address)) |->
                      Strip(SplitComma(formatted_address)[i])]
        tokens == SplitWs(parts[Len(parts)])
    IN  IF Len(parts) >= 2 /\ tokens # <<>>
        THEN [city |-> IF Len(tokens) > 1 THEN JoinSpace(Tail(tokens)) ELSE <<>>,
              postal_code |-> tokens[1]]
        ELSE [city |-> <<>>, postal_code |-> <<>>]

parse_city_postal(formatted_address) ==
    LET parts == [i \in 1..Len(SplitComma(formatted_address)) |->
                      Strip(SplitComma(formatted_address)[i])]
    IN  IF Len(parts) >= 2
        THEN LET city_post == parts[Len(parts) - 1]
                 tokens == SplitWs(city_post)
             IN  IF tokens = <<>>
                 THEN Raised("IndexError")          \* tokens[0] of an empty list
                 ELSE [city |-> IF Len(tokens) > 1 THEN JoinSpace(Tail(tokens)) ELSE <<>>,
                       postal_code |-> tokens[1]]
        ELSE [city |-> <<>>, postal_code |-> <<>>]

MapsUrlPrefix == "https://www.google.com/maps/place/?q=place_id:"

extract_place_data(p) ==
    LET place_id == Get(p, "place_id", "")
        name == Strip(Get(p, "name", <<>>))
        address == Strip(Get(p, "formatted_address", <<>>))
        cp == parse_city_postal(address)
    IN  IF IsRaised(cp)
        THEN cp
        ELSE [place_id |-> place_id,
              name |-> name,
              address |-> address,
              city |-> cp.city,
              postal_code |-> cp.postal_code,
              rating |-> Get(p, "rating", ""),
              user_ratings_total |-> Get(p, "user_ratings_total", ""),
              types |-> Get(p, "types", <<>>),
              maps_url |-> MapsUrlPrefix \o place_id]

-----------------------------------------------------------------------------
(* SpecNorm: one call of extract_place_data on a raw hit drawn from a      *)
(* bounded set: every subset of the fields present, every address of at    *)
(* most MaxAddrLen characters over AddrChars.                              *)

AddrChars == {",", " ", "5", "N"}

AddrStrings == UNION {[1..n -> AddrChars] : n \in 0..MaxAddrLen}

\* "12 Rue X, 5000 Namur, Belgium"
ScenarioAddress ==
    <<"1", "2", " ", "R", "u", "e", " ", "X", ",", " ", "5", "0", "0", "0", " ",
      "N", "a", "m", "u", "r", ",", " ", "B", "e", "l", "g", "i", "u", "m">>

\* "Rue X, Namur, Belgium"
NoCodeAddress ==
    <<"R", "u", "e", " ", "X", ",", " ", "N", "a", "m", "u", "r", ",", " ", "B", "e", "l", "g", "i", "u", "m">>

Addresses == AddrStrings \cup {ScenarioAddress, NoCodeAddress}

HitFields == {"place_id", "name", "formatted_address", "rating",
              "user_ratings_total", "types"}

\* the value a present field has, the address apart
FieldValue(f) ==
    CASE f = "place_id" -> "abc"
      [] f = "name" -> <<" ", "F", " ", "X", " ">>
      [] f = "rating" -> "4.5"
      [] f = "user_ratings_total" -> "12"
      [] f = "types" -> <<"store", "food">>
      [] OTHER -> <<>>

RawHits ==
    {[f \in S |-> IF f = "formatted_address" THEN a ELSE FieldValue(f)] :
        S \in SUBSET HitFields, a \in Addresses}

MainIdle ==
    /\ pc = "idle" /\ run = 0 /\ prev = "none"
    /\ cities = <<>> /\ keywords = <<>> /\ upstream = <<>>
    /\ dirExists = FALSE /\ fileExists = FALSE /\ file = <<>> /\ file0 = <<>>
    /\ existing_urls = {} /\ city_data = <<>>
    /\ ci = 0 /\ ki = 0 /\ fi = 0
    /\ events = <<>>

SearchIdle ==
    /\ spc = "idle" /\ params = <<>> /\ all_results = <<>> /\ next_token = ""
    /\ requests = <<>> /\ responses = <<>> /\ clock = 0

NormIdle == npc = "idle" /\ place = <<>> /\ data = <<>>

ProdIdle ==
    /\ ppc = "idle" /\ prun = 0 /\ pupstream = <<>>
    /\ pdirExists = FALSE /\ pfileExists = FALSE /\ pfile = <<>>
    /\ pseen = {} /\ pci = 0 /\ pki = 0

ScrapeIdle ==
    /\ rpc = "idle" /\ rupstream = <<>> /\ rki = 0
    /\ all_places = <<>> /\ unique = <<>> /\ filtered = <<>>
    /\ out_file = <<>> /\ count = -1

InitNorm ==
    /\ MainIdle /\ SearchIdle /\ ProdIdle /\ ScrapeIdle
    /\ npc = "call"
    /\ place \in RawHits
    /\ data = <<>>

\* extract_place_data returns
NormReturn ==
    /\ npc = "call"
    /\ ~IsRaised(extract_place_data(place))
    /\ data' = extract_place_data(place)
    /\ npc' = "returned"
    /\ UNCHANGED <<place, mainVars, searchVars, prodVars, scrapeVars>>

\* extract_place_data raises
NormRaise ==
    /\ npc = "call"
    /\ IsRaised(extract_place_data(place))
    /\ data' = extract_place_data(place)
    /\ npc' = "raised"
    /\ UNCHANGED <<place, mainVars, searchVars, prodVars, scrapeVars>>

NextNorm == NormReturn \/ NormRaise

SpecNorm == InitNorm /\ [][NextNorm]_vars

\* C10: extract_place_data is total: on every raw hit, whichever fields are
\* missing and whatever the formatted_address, it returns a record and never raises.
C10_NormalizeTotal == npc # "raised"

IsDigit(c) == c \in {"0", "1", "2", "3", "4", "5", "6", "7", "8", "9"}

\* a token of four or five digits
IsCode(token) == Len(token) \in {4, 5} /\ \A i \in 1..Len(token) : IsDigit(token[i])

\* some comma-separated segment of the address starts with such a token
HasCodeSegment(address) ==
    \E i \in 1..Len(SplitComma(address)) :
        LET tokens == SplitWs(SplitComma(address)[i])
        IN  tokens # <<>> /\ IsCode(tokens[1])

\* C11: the address "12 Rue X, 5000 Namur, Belgium" parses to the postal
\* code "5000" and the city "Namur"; and for a hit whose address has no
\* comma-separated segment that starts with a token of four or five digits,
\* the call returns, with city and postal code both empty.
C11_AddressParsing ==
    /\ parse_city_postal(ScenarioAddress) =
           [city |-> <<"N", "a", "m", "u", "r">>, postal_code |-> <<"5", "0", "0", "0">>]
    /\ (npc # "call" /\ ~HasCodeSegment(Get(place, "formatted_address", <<>>))) =>
           /\ npc = "returned"
           /\ data.city = <<>>
           /\ data.postal_code = <<>>

-----------------------------------------------------------------------------
(* scrape_produits_bio.py: the paginated search client.                    *)

\* time.sleep(2.1), in tenths of a second
PageDelay == 21

\* the query of the first request
QueryParams(keyword, location) ==
    [query |-> keyword \o " in " \o location, key |-> "KEY"]

\* the params of a follow-up request
TokenParams(token) == [pagetoken |-> token, key |-> "KEY"]

\* Python's truth value of data.get("next_page_token")
HasToken(resp) == Get(resp, "next_page_token", "") # ""

\* the extend replaced by an assignment: each page overwrites the ones before
ExtendOverwrites(results, resp) == Get(resp, "results", <<>>)

\* all_results.extend(data.get("results", []))
Extend(results, resp) == results \o Get(resp, "results", <<>>)

\* What the upstream may answer to one request: any page of hits or no
\* "results" at all, with a token, an empty token or none.
SearchPages == {<<"h1">>, <<"h2", "h3">>}
SearchTokens == {"", "t1", "t2"}
SearchResponses ==
    {[f \in S |-> IF f = "results" THEN r ELSE t] :
        S \in SUBSET {"results", "next_page_token"},
        r \in SearchPages, t \in SearchTokens}

InitSearch ==
    /\ MainIdle /\ NormIdle /\ ProdIdle /\ ScrapeIdle
    /\ spc = "request"
    /\ params = QueryParams("magasin bio", "Namur")
    /\ all_results = <<>>
    /\ next_token = ""
    /\ requests = <<>>
    /\ responses = <<>>
    /\ clock = 0

\* requests.get(API_URL, params=params) answered by resp at the time it is sent
Exchange(resp) ==
    /\ requests' = Append(requests, [params |-> params, time |-> clock])
    /\ responses' = Append(responses, [data |-> resp, time |-> clock])

\* One turn of the loop whose response carries a token: the hits are kept and
\* the client goes to sleep.
RequestMore ==
    /\ spc = "request"
    /\ Len(requests) < MaxRequests
    /\ \E resp \in SearchResponses :
        /\ HasToken(resp)
        /\ Exchange(resp)
        /\ all_results' = Extend(all_results, resp)
        /\ next_token' = resp.next_page_token
    /\ spc' = "sleep"
    /\ UNCHANGED <<params, clock, mainVars, normVars, prodVars, scrapeVars>>

\* One turn of the loop whose response carries no token: the loop breaks and
\* the client returns all_results.
RequestLast ==
    /\ spc = "request"
    /\ Len(requests) < MaxRequests
    /\ \E resp \in SearchResponses :
        /\ ~HasToken(resp)
        /\ Exchange(resp)
        /\ all_results' = Extend(all_results, resp)
        /\ next_token' = Get(resp, "next_page_token", "")
    /\ spc' = "returned"
    /\ UNCHANGED <<params, clock, mainVars, normVars, prodVars, scrapeVars>>

\* The request fails (transport error, or raise_for_status on a non-2xx
\* answer): the exception leaves the client.
RequestFail ==
    /\ spc = "request"
    /\ Len(requests) < MaxRequests
    /\ requests' = Append(requests, [params |-> params, time |-> clock])
    /\ spc' = "raised"
    /\ UNCHANGED <<params, all_results, next_token, responses, clock,
                   mainVars, normVars, prodVars, scrapeVars>>

\* time.sleep(2.1), which may last longer, then the params of the follow-up
Sleep ==
    /\ spc = "sleep"
    /\ \E late \in {0, 4} : clock' = clock + PageDelay + late
    /\ params' = TokenParams(next_token)
    /\ spc' = "request"
    /\ UNCHANGED <<all_results, next_token, requests, responses, mainVars, normVars, prodVars, scrapeVars>>

NextSearch == RequestMore \/ RequestLast \/ RequestFail \/ Sleep

SpecSearch == InitSearch /\ [][NextSearch]_vars

\* the page cap the specification asks of the client; the code has none
PageCap == 3

\* the hits of the responses, page after page
RECURSIVE ConcatResults(_)
ConcatResults(resps) ==
    IF resps = <<>> THEN <<>>
    ELSE Get(resps[1].data, "results", <<>>) \o ConcatResults(Tail(resps))

\* C7: when a search returns, having received K responses with a token and
\* then one without, it has issued exactly K+1 requests, the first with the
\* query and each later one with the token of the response just before it,
\* sent at least 2.1 s after that response arrived, and its result is the
\* hits of all K+1 pages in order.
C7_Pagination ==
    spc = "returned" =>
        LET n == Len(requests)
            K == Cardinality({i \in 1..Len(responses) : HasToken(responses[i].data)})
        IN  /\ Len(responses) = n
            /\ n = K + 1
            /\ ~HasToken(responses[n].data)
            /\ requests[1].params = QueryParams("magasin bio", "Namur")
            /\ \A i \in 2..n :
                 /\ requests[i].params =
                        [pagetoken |-> responses[i - 1].data.next_page_token,
                         key |-> "KEY"]
                 /\ requests[i].time >= responses[i - 1].time + 21
            /\ all_results = ConcatResults(responses)

\* a search of three pages has returned
C7_Witness ==
    /\ spc = "returned"
    /\ Len(requests) = 3
    /\ all_results = <<"h1", "h2", "h3", "h1">>

\* C8: one search never issues more requests than the page cap.
C8_BoundedPagination == Len(requests) <= PageCap

-----------------------------------------------------------------------------
(* run_all_scraper.py: the inputs of main.                                 *)

\* cities.txt: NumAreas cities
cities_txt == SubSeq(<<"Namur", "Liege", "Mons">>, 1, NumAreas)

\* keywords.txt
keywords_txt == <<"Magasin Bio", "miel bio">>

NumCities == Len(cities)
NumKw == Len(keywords)

\* kw.lower()
Lower(kw) == IF kw = "Magasin Bio" THEN "magasin bio" ELSE kw

\* categories.txt as read_mapping returns it
place_map == [k \in {"magasin bio"} |-> "Epicerie"]

\* the product_map of main, of which one key is a keyword here
product_map == [k \in {"miel bio", "boulangerie bio"} |->
                   IF k = "miel bio" THEN "Miels artisanaux et locaux"
                   ELSE "Cereales & Pain"]

\* sorted(S) for a set of the strings above: they are listed in Python's order
StrOrder == <<"Cereales & Pain", "Epicerie", "Magasin Bio",
              "Miels artisanaux et locaux", "magasin bio", "miel bio">>
Sorted(S) == SelectSeq(StrOrder, LAMBDA x : x \in S)

\* The raw hits the upstream returns.
HitA  == [place_id |-> "a", name |-> <<"F">>,
          formatted_address |-> <<"R", ",", " ", "5", " ", "N", ",", " ", "B">>,
          rating |-> "4.5", user_ratings_total |-> "12",
          types |-> <<"store", "food">>]
\* the same place under another name
HitA2 == [place_id |-> "a", name |-> <<"G">>,
          formatted_address |-> <<"R", ",", " ", "5", " ", "N", ",", " ", "B">>,
          types |-> <<"farm">>]
HitB  == [place_id |-> "b", name |-> <<" ", "H">>, formatted_address |-> <<"N">>]
\* a hit with an empty place_id, a hit with none
HitE  == [place_id |-> "", name |-> <<"E">>]
HitM  == [name |-> <<"M">>]
\* a hit whose address has an empty second-to-last segment
HitX  == [place_id |-> "x", formatted_address |-> <<",", "B">>]

\* the hit of the scenario, with or without the fields in S
ScenarioHit(S) ==
    [f \in {"place_id", "name", "types", "formatted_address"} \cup S |->
        CASE f = "place_id" -> "abc"
          [] f = "name" -> <<"F", "e", "r", "m", "e", " ", "X">>
          [] f = "types" -> <<"store">>
          [] f = "formatted_address" ->
                <<"1", " ", "R", "u", "e", " ", "Y", ",", " ", "5", "0", "0", "0", " ",
                  "N", "a", "m", "u", "r", ",", " ", "B", "e", "l", "g", "i", "u", "m">>
          [] f = "rating" -> "4.5"
          [] OTHER -> "12"]

\* What the upstream returns for one search, each outcome under a name: a
\* sequence of pages, every page but the last with a continuation token.
GoodOutcomes == {"none", "a", "b a2, b", "e m"}

\* an outcome on whose second page extract_place_data raises
BadOutcome == "a, x"

SearchOutcomes == GoodOutcomes \cup {BadOutcome}

\* the outcomes of the scenario: its hit, with or without rating and review count
ScenarioOutcomes == {"abc", "abc rating", "abc total", "abc rating total"}

PagesOf(o) ==
    CASE o = "none" -> << <<>> >>
      [] o = "a" -> << <<HitA>> >>
      [] o = "b a2, b" -> << <<HitB, HitA2>>, <<HitB>> >>
      [] o = "e m" -> << <<HitE, HitM>> >>
      [] o = "a, x" -> << <<HitA>>, <<HitX>> >>
      [] o = "abc" -> << <<ScenarioHit({})>> >>
      [] o = "abc rating" -> << <<ScenarioHit({"rating"})>> >>
      [] o = "abc total" -> << <<ScenarioHit({"user_ratings_total"})>> >>
      [] o = "abc rating total" ->
            << <<ScenarioHit({"rating", "user_ratings_total"})>> >>

\* The upstreams of the model: any outcome for any search, the bad one only
\* for the last search of a run (it ends the run wherever it comes).
Upstreams ==
    {u \in [1..NumAreas -> [1..Len(keywords_txt) -> SearchOutcomes]] :
        \A c \in 1..NumAreas, k \in 1..Len(keywords_txt) :
            u[c][k] = BadOutcome => (c = NumAreas /\ k = Len(keywords_txt))}

\* the pages the upstream returns for keywords[k] in cities[c]
Pages(c, k) == PagesOf(upstream[c][k])

\* fetch_places_for_keyword against such an upstream: the hits of all pages
RECURSIVE fetch_places_for_keyword(_)
fetch_places_for_keyword(pages) ==
    IF pages = <<>> THEN <<>>
    ELSE pages[1] \o fetch_places_for_keyword(Tail(pages))

-----------------------------------------------------------------------------
(* run_all_scraper.py: the table.                                          *)

fieldnames == <<"name", "address", "city", "postal_code", "rating",
                "user_ratings_total", "types", "maps_url",
                "matched_keywords", "place_category", "product_category">>

\* the record writeheader writes
HeaderLine == [kind |-> "header", fields |-> fieldnames]

\* row.get("maps_url", "") of csv.DictReader: the first record of the file
\* names the columns, whatever it is
Column(first, line) ==
    IF first.kind = "header"
    THEN IF line.kind = "header" THEN "maps_url" ELSE line.maps_url
    ELSE ""

\* existing_urls read one record too late, the first row taken for the header
ReadUrlsFromThirdRecord(f) == {Column(f[1], f[i]) : i \in 3..Len(f)}

\* the existing_urls main loads
ReadUrls(f) == {Column(f[1], f[i]) : i \in 2..Len(f)}

\* the row main writes for an entry of city_data
SerializeEntry(entry) ==
    [kind |-> "row",
     name |-> entry.name,
     address |-> entry.address,
     city |-> entry.city,
     postal_code |-> entry.postal_code,
     rating |-> entry.rating,
     user_ratings_total |-> entry.user_ratings_total,
     types |-> Join("|", entry.types),
     maps_url |-> entry.maps_url,
     matched_keywords |-> Join(";", Sorted(entry.matched_keywords)),
     place_category |-> Join(";", Sorted(entry.place_category)),
     product_category |-> Join(";", Sorted(entry.product_category))]

-----------------------------------------------------------------------------
(* run_all_scraper.py: the aggregator.                                     *)

\* the position of url in city_data, 0 when it is no key
IndexOf(cd, url) ==
    IF \E i \in 1..Len(cd) : cd[i].maps_url = url
    THEN CHOOSE i \in 1..Len(cd) : cd[i].maps_url = url
    ELSE 0

\* the tags assigned instead of added: the last keyword replaces the others
AddTagsOverwrites(entry, lckw) ==
    [entry EXCEPT
        !.matched_keywords = {lckw},
        !.place_category =
            IF Get(place_map, lckw, "") # "" THEN {place_map[lckw]} ELSE {},
        !.product_category =
            IF Get(product_map, lckw, "") # "" THEN {product_map[lckw]} ELSE {}]

\* the tags one observation under keyword lckw adds to an entry
AddTags(entry, lckw) ==
    [entry EXCEPT
        !.matched_keywords = @ \cup {lckw},
        !.place_category =
            IF Get(place_map, lckw, "") # "" THEN @ \cup {place_map[lckw]} ELSE @,
        !.product_category =
            IF Get(product_map, lckw, "") # "" THEN @ \cup {product_map[lckw]} ELSE @]

\* the skip without its test of existing_urls
SkipsOnlyEmpty(d, seen) == d.maps_url = ""

\* whether main skips a normalized hit
Skips(d, seen) == d.maps_url = "" \/ d.maps_url \in seen

\* the body with the entry of a place seen again replaced by the new hit
ObserveOverwrites(cd, d, lckw, seen) ==
    IF Skips(d, seen)
    THEN cd
    ELSE LET fresh == d @@ [matched_keywords |-> {}, place_category |-> {},
                            product_category |-> {}]
             cd1 == IF IndexOf(cd, d.maps_url) = 0
                    THEN Append(cd, fresh)
                    ELSE [cd EXCEPT ![IndexOf(cd, d.maps_url)] = fresh]
             i == IndexOf(cd1, d.maps_url)
         IN  [cd1 EXCEPT ![i] = AddTags(@, lckw)]

\* the body of "for raw in results" for one hit that normalizes to d
Observe(cd, d, lckw, seen) ==
    IF Skips(d, seen)
    THEN cd
    ELSE LET cd1 == IF IndexOf(cd, d.maps_url) = 0
                    THEN Append(cd, d @@ [matched_keywords |-> {},
                                          place_category |-> {},
                                          product_category |-> {}])
                    ELSE cd
             i == IndexOf(cd1, d.maps_url)
         IN  [cd1 EXCEPT ![i] = AddTags(@, lckw)]

\* "for raw in results": city_data after the hits, or the exception of
\* extract_place_data on the first hit it fails on
RECURSIVE MergeAll(_, _, _, _)
MergeAll(cd, results, lckw, seen) ==
    IF results = <<>> THEN [raised |-> FALSE, city_data |-> cd]
    ELSE LET d == extract_place_data(results[1])
         IN  IF IsRaised(d) THEN [raised |-> TRUE, city_data |-> cd]
             ELSE MergeAll(Observe(cd, d, lckw, seen), Tail(results), lckw, seen)

-----------------------------------------------------------------------------
(* run_all_scraper.py: main, run after run on the same table.              *)

\* a row an earlier run left for HitB, found under "miel bio"
OldRow ==
    SerializeEntry(
        MergeAll(<<>>, <<HitB>>, Lower("miel bio"), {}).city_data[1])

Init ==
    /\ SearchIdle /\ NormIdle /\ ProdIdle /\ ScrapeIdle
    /\ pc = "check"
    /\ run = 1
    /\ prev = "none"
    /\ cities = cities_txt
    /\ keywords = keywords_txt
    /\ upstream \in Upstreams
    /\ \/ dirExists = FALSE /\ fileExists = FALSE /\ file = <<>>
       \/ dirExists = TRUE /\ fileExists = TRUE /\ file = <<HeaderLine, OldRow>>
    /\ file0 = file
    /\ existing_urls = {}
    /\ city_data = <<>>
    /\ ci = 0 /\ ki = 0 /\ fi = 0
    /\ events = <<>>

memVars == <<existing_urls, city_data, ci, ki, fi, events>>
diskVars == <<dirExists, fileExists, file>>
runVars == <<run, prev, cities, keywords, upstream, file0>>

\* time.sleep(1), in tenths of a second
KeywordDelay == 10

\* the search of keywords[k] in cities[c] has returned, after one request per page
SearchEvent(c, k) == <<"search", c, k, Len(Pages(c, k))>>

\* the wait skipped when the search returned no hit
ThrottleOnHitsOnly(results) ==
    IF results = <<>> THEN <<>> ELSE << <<"sleep", KeywordDelay>> >>

\* line 130: time.sleep(1) after the hits of a keyword, however many
Throttle(results) == << <<"sleep", KeywordDelay>> >>

\* lines 55-61: the three input files exist and are read
InputsPresent ==
    /\ pc = "check"
    /\ pc' = "prepare"
    /\ UNCHANGED <<memVars, diskVars, runVars, searchVars, normVars, prodVars, scrapeVars>>

\* lines 55-57: an input file is missing, SystemExit
InputsMissing ==
    /\ pc = "check"
    /\ pc' = "aborted"
    /\ UNCHANGED <<memVars, diskVars, runVars, searchVars, normVars, prodVars, scrapeVars>>

\* lines 82-89: mkdir, and if the file does not exist it is created, empty
PrepareCsv ==
    /\ pc = "prepare"
    /\ dirExists' = TRUE
    /\ fileExists' = TRUE
    /\ file' = file
    /\ pc' = IF fileExists THEN "key" ELSE "header"
    /\ UNCHANGED <<memVars, runVars, searchVars, normVars, prodVars, scrapeVars>>

\* lines 89-90: the header is written to the file just created, which is closed
WriteHeader ==
    /\ pc = "header"
    /\ file' = <<HeaderLine>>
    /\ pc' = "key"
    /\ UNCHANGED <<dirExists, fileExists, memVars, runVars, searchVars, normVars, prodVars, scrapeVars>>

\* line 92: load_api_key returns the key
KeyPresent ==
    /\ pc = "key"
    /\ pc' = "load"
    /\ UNCHANGED <<memVars, diskVars, runVars, searchVars, normVars, prodVars, scrapeVars>>

\* line 92: GOOGLE_API_KEY is not set, SystemExit
KeyMissing ==
    /\ pc = "key"
    /\ pc' = "aborted"
    /\ UNCHANGED <<memVars, diskVars, runVars, searchVars, normVars, prodVars, scrapeVars>>

\* existing_urls left empty instead of read from the file
LoadNothing ==
    /\ pc = "load"
    /\ existing_urls' = {}
    /\ city_data' = <<>>
    /\ ci' = 1 /\ ki' = 1 /\ fi' = 0
    /\ pc' = IF NumCities = 0 THEN "done" ELSE "fetch"
    /\ UNCHANGED <<events, diskVars, runVars, searchVars, normVars, prodVars, scrapeVars>>

\* existing_urls assigned for each row instead of added to: the last row alone
LoadLastRowOnly ==
    /\ pc = "load"
    /\ existing_urls' = IF Len(file) >= 2
                        THEN {Column(file[1], file[Len(file)])}
                        ELSE {}
    /\ city_data' = <<>>
    /\ ci' = 1 /\ ki' = 1 /\ fi' = 0
    /\ pc' = IF NumCities = 0 THEN "done" ELSE "fetch"
    /\ UNCHANGED <<events, diskVars, runVars, searchVars, normVars, prodVars, scrapeVars>>

\* lines 94-103: existing_urls is read from the file; the first city begins
LoadExisting ==
    /\ pc = "load"
    /\ existing_urls' = ReadUrls(file)
    /\ city_data' = <<>>
    /\ ci' = 1 /\ ki' = 1 /\ fi' = 0
    /\ pc' = IF NumCities = 0 THEN "done" ELSE "fetch"
    /\ UNCHANGED <<events, diskVars, runVars, searchVars, normVars, prodVars, scrapeVars>>

\* lines 105-130, one turn of "for kw in keywords": the search, then every
\* hit normalized and merged into city_data
FetchAndMerge ==
    /\ pc = "fetch"
    /\ LET lckw == Lower(keywords[ki])
           results == fetch_places_for_keyword(Pages(ci, ki))
           merged == MergeAll(city_data, results, lckw, existing_urls)
       IN  /\ ~merged.raised
           /\ city_data' = merged.city_data
           /\ events' = events \o <<SearchEvent(ci, ki)>> \o Throttle(results)
    /\ IF ki < NumKw
       THEN ki' = ki + 1 /\ pc' = "fetch" /\ fi' = fi
       ELSE ki' = ki /\ pc' = "flush" /\ fi' = 1
    /\ UNCHANGED <<existing_urls, ci, diskVars, runVars, searchVars, normVars, prodVars, scrapeVars>>

\* lines 108-110: extract_place_data raises on a hit and the exception ends main
FetchRaises ==
    /\ pc = "fetch"
    /\ MergeAll(city_data, fetch_places_for_keyword(Pages(ci, ki)),
                Lower(keywords[ki]), existing_urls).raised
    /\ events' = Append(events, SearchEvent(ci, ki))
    /\ pc' = "crashed"
    /\ UNCHANGED <<existing_urls, city_data, ci, ki, fi, diskVars, runVars,
                   searchVars, normVars, prodVars, scrapeVars>>

\* The failure handled: the hits of the pages before the failed one are
\* merged and main goes on with the next keyword.
SearchFailsKeepsPages ==
    /\ pc = "fetch"
    /\ \E p \in 1..Len(Pages(ci, ki)) :
        /\ events' = Append(events, <<"fail", ci, ki, p>>)
        /\ city_data' =
              MergeAll(city_data,
                       fetch_places_for_keyword(SubSeq(Pages(ci, ki), 1, p - 1)),
                       Lower(keywords[ki]), {}).city_data
    /\ IF ki < NumKw
       THEN ki' = ki + 1 /\ pc' = "fetch" /\ fi' = fi
       ELSE ki' = ki /\ pc' = "flush" /\ fi' = 1
    /\ UNCHANGED <<existing_urls, ci, diskVars, runVars, searchVars, normVars, prodVars, scrapeVars>>

\* line 108, lines 69-70 of the client: the request of page p of the search
\* fails (requests.get or raise_for_status raises); nothing catches the
\* exception, which ends main
SearchFails ==
    /\ pc = "fetch"
    /\ \E p \in 1..Len(Pages(ci, ki)) :
        events' = Append(events, <<"fail", ci, ki, p>>)
    /\ pc' = "crashed"
    /\ UNCHANGED <<existing_urls, city_data, ci, ki, fi, diskVars, runVars,
                   searchVars, normVars, prodVars, scrapeVars>>

\* the row written and its maps_url not added to existing_urls
FlushRowForgetsUrl ==
    /\ pc = "flush"
    /\ fi <= Len(city_data)
    /\ file' = Append(file, SerializeEntry(city_data[fi]))
    /\ fi' = fi + 1
    /\ UNCHANGED <<pc, existing_urls, city_data, ci, ki, events, dirExists, fileExists,
                   runVars, searchVars, normVars, prodVars, scrapeVars>>

\* lines 136-145, one turn of "for entry in city_data.values()"
FlushRow ==
    /\ pc = "flush"
    /\ fi <= Len(city_data)
    /\ file' = Append(file, SerializeEntry(city_data[fi]))
    /\ existing_urls' = existing_urls \cup {city_data[fi].maps_url}
    /\ fi' = fi + 1
    /\ UNCHANGED <<pc, city_data, ci, ki, events, dirExists, fileExists, runVars,
                   searchVars, normVars, prodVars, scrapeVars>>

\* the append pass ended one entry early
NextCityOneEarly ==
    /\ pc = "flush"
    /\ fi >= Len(city_data)
    /\ IF ci < NumCities
       THEN /\ ci' = ci + 1 /\ ki' = 1 /\ fi' = 0
            /\ city_data' = <<>>
            /\ pc' = "fetch"
       ELSE /\ pc' = "done"
            /\ UNCHANGED <<city_data, ci, ki, fi>>
    /\ events' = Append(events, <<"flush", ci>>)
    /\ UNCHANGED <<existing_urls, diskVars, runVars, searchVars, normVars, prodVars, scrapeVars>>

\* the next city begun with the city_data of the city before
NextCityKeepsData ==
    /\ pc = "flush"
    /\ fi > Len(city_data)
    /\ IF ci < NumCities
       THEN /\ ci' = ci + 1 /\ ki' = 1 /\ fi' = 0
            /\ city_data' = city_data
            /\ pc' = "fetch"
       ELSE /\ pc' = "done"
            /\ UNCHANGED <<city_data, ci, ki, fi>>
    /\ events' = Append(events, <<"flush", ci>>)
    /\ UNCHANGED <<existing_urls, diskVars, runVars, searchVars, normVars, prodVars, scrapeVars>>

\* lines 146, 101-103: the append pass is over; the next city begins, or main ends
NextCity ==
    /\ pc = "flush"
    /\ fi > Len(city_data)
    /\ IF ci < NumCities
       THEN /\ ci' = ci + 1 /\ ki' = 1 /\ fi' = 0
            /\ city_data' = <<>>
            /\ pc' = "fetch"
       ELSE /\ pc' = "done"
            /\ UNCHANGED <<city_data, ci, ki, fi>>
    /\ events' = Append(events, <<"flush", ci>>)
    /\ UNCHANGED <<existing_urls, diskVars, runVars, searchVars, normVars, prodVars, scrapeVars>>

\* main is interrupted (an exception of a request or of a write, Ctrl-C, the
\* process killed) in the keyword loop or between two rows of the append
\* pass; the rows written so far stay in the file
Crash ==
    /\ pc \in {"fetch", "flush"}
    /\ pc' = "crashed"
    /\ UNCHANGED <<memVars, diskVars, runVars, searchVars, normVars, prodVars, scrapeVars>>

\* main is started again on the table the run before left
Restart ==
    /\ pc \in {"done", "aborted", "crashed"}
    /\ run < MaxRuns
    /\ run' = run + 1
    /\ prev' = pc
    /\ file0' = file
    /\ pc' = "check"
    /\ existing_urls' = {}
    /\ city_data' = <<>>
    /\ ci' = 0 /\ ki' = 0 /\ fi' = 0
    /\ events' = <<>>
    /\ UNCHANGED <<cities, keywords, upstream, diskVars, searchVars, normVars, prodVars, scrapeVars>>

Next ==
    \/ InputsPresent \/ InputsMissing \/ PrepareCsv \/ WriteHeader
    \/ KeyPresent \/ KeyMissing \/ LoadExisting
    \/ FetchAndMerge \/ FetchRaises \/ SearchFails \/ FlushRow \/ NextCity
    \/ Crash \/ Restart

Spec == Init /\ [][Next]_vars

-----------------------------------------------------------------------------
(* SpecInterrupt: the runs of Spec, and main interrupted at any point of   *)
(* the creation of the table as well.                                      *)

\* lines 89-90: main is interrupted (Ctrl-C, the process killed) after
\* open("w") has created the file and before the header is written out
CrashAtHeader ==
    /\ pc = "header"
    /\ pc' = "crashed"
    /\ UNCHANGED <<memVars, diskVars, runVars, searchVars, normVars, prodVars, scrapeVars>>

NextInterrupt ==
    \/ InputsPresent \/ InputsMissing \/ PrepareCsv \/ WriteHeader \/ CrashAtHeader
    \/ KeyPresent \/ KeyMissing \/ LoadExisting
    \/ FetchAndMerge \/ FetchRaises \/ SearchFails \/ FlushRow \/ NextCity
    \/ Crash \/ Restart

SpecInterrupt == Init /\ [][NextInterrupt]_vars

-----------------------------------------------------------------------------
(* SpecRun: one run of main that nothing outside main disturbs: the inputs *)
(* and the key are there, every request is answered, nobody interrupts     *)
(* the process. In every position main has a next step, until it has       *)
(* ended: "done" at the end of main, "crashed" by an exception of its own. *)

NextRun ==
    \/ InputsPresent \/ PrepareCsv \/ WriteHeader \/ KeyPresent \/ LoadExisting
    \/ FetchAndMerge \/ FetchRaises \/ FlushRow \/ NextCity

SpecRun == Init /\ [][NextRun]_vars

-----------------------------------------------------------------------------
(* SpecScenario: runs of main with one city, one keyword and an upstream   *)
(* that returns one page with one hit, on a table absent or empty.         *)

InitScenario ==
    /\ SearchIdle /\ NormIdle /\ ProdIdle /\ ScrapeIdle
    /\ pc = "check"
    /\ run = 1
    /\ prev = "none"
    /\ cities = <<"Namur">>
    /\ keywords = <<"magasin bio">>
    /\ \E o \in ScenarioOutcomes : upstream = << <<o>> >>
    /\ \/ dirExists = FALSE /\ fileExists = FALSE /\ file = <<>>
       \/ dirExists = TRUE /\ fileExists = TRUE /\ file = <<HeaderLine>>
    /\ file0 = file
    /\ existing_urls = {}
    /\ city_data = <<>>
    /\ ci = 0 /\ ki = 0 /\ fi = 0
    /\ events = <<>>

\* the steps of main; no address of the scenario makes extract_place_data raise
NextScenario ==
    \/ InputsPresent \/ InputsMissing \/ PrepareCsv \/ WriteHeader
    \/ KeyPresent \/ KeyMissing \/ LoadExisting
    \/ FetchAndMerge \/ SearchFails \/ FlushRow \/ NextCity
    \/ Crash \/ Restart

SpecScenario == InitScenario /\ [][NextScenario]_vars

\* C12: when a run of the scenario has ended, the table is the header and
\* exactly one data row, whose maps_url ends with "?q=place_id:abc", whose
\* city is "Namur", whose postal code is "5000" and whose matched_keywords
\* is "magasin bio".
C12_Scenario ==
    pc = "done" =>
        /\ Len(file) = 2
        /\ file[1] = HeaderLine
        /\ file[2].kind = "row"
        /\ file[2].maps_url = "https://www.google.com/maps/place/?q=place_id:abc"
        /\ file[2].city = <<"N", "a", "m", "u", "r">>
        /\ file[2].postal_code = <<"5", "0", "0", "0">>
        /\ file[2].matched_keywords = "magasin bio"

\* the first run of the scenario has ended, on a table that did not exist
C12_Witness ==
    /\ pc = "done" /\ run = 1
    /\ file0 = <<>>
    /\ Len(file) = 2
    /\ events = << <<"search", 1, 1, 1>>, <<"sleep", KeywordDelay>>, <<"flush", 1>> >>

-----------------------------------------------------------------------------
(* scraper_producteurs.py: the scraper of producers. A letter with an      *)
(* accent is one character, written with its accent after it.              *)

\* the digits at the start of s
RECURSIVE LeadDigits(_)
LeadDigits(s) ==
    IF s # <<>> /\ IsDigit(Head(s)) THEN <<Head(s)>> \o LeadDigits(Tail(s)) ELSE <<>>

\* The match of ",\s*(\d{4,5})\s+([^,]+)" that starts at the comma
\* address[i], as its two groups, or <<>> when there is none: after the comma
\* and any spaces come exactly four or five digits, then at least one space,
\* then at least one character that is no comma (which the last of several
\* spaces can be).
MatchAt(address, i) ==
    LET r1 == LStrip(SubSeq(address, i + 1, Len(address)))
        code == LeadDigits(r1)
        r2 == SubSeq(r1, Len(code) + 1, Len(r1))
        spaces == Len(r2) - Len(LStrip(r2))
        seg == SplitComma(LStrip(r2))[1]
    IN  IF /\ address[i] = ","
           /\ Len(code) \in {4, 5}
           /\ spaces >= 1
           /\ (seg # <<>> \/ spaces >= 2)
        THEN <<code, IF seg # <<>> THEN seg ELSE <<" ">> >>
        ELSE <<>>

\* parse_city_postal of scraper_producteurs.py: re.search takes the leftmost match
producteurs_parse_city_postal(address) ==
    LET starts == {i \in 1..Len(address) : MatchAt(address, i) # <<>>}
    IN  IF starts = {}
        THEN [city |-> <<>>, postal_code |-> <<>>]
        ELSE LET i == CHOOSE i \in starts : \A j \in starts : i <= j
                 groups == MatchAt(address, i)
             IN  [city |-> Strip(groups[2]), postal_code |-> Strip(groups[1])]

build_maps_url(place_id) == "https://www.google.com/maps/place/?q=place_id:" \o place_id

\* places_text_search against an upstream that returns these pages
places_text_search(pages) == fetch_places_for_keyword(pages)

PRODUCER_TYPES == {"farm", "farmers_market"}

\* the last two literals of the list have no comma between them
PRODUCER_NAME_KEYWORDS ==
    { <<"m", "a", "r", "a", "i", "c", "h", "e", "r">>,
      <<"m", "a", "r", "a", "i^", "c", "h", "e", "r">>,
      <<"m", "i", "e", "l", "l", "e", "r", "i", "e">>,
      <<"a", "p", "i", "c", "u", "l", "t", "e", "u", "r">>,
      <<"e'", "l", "e", "v", "a", "g", "e">>,
      <<"f", "e", "r", "m", "i", "e", "r">>,
      <<"v", "o", "l", "a", "i", "l", "l", "e">>,
      <<"m", "a", "r", "c", "h", "e'", " ", "f", "e", "r", "m", "i", "e", "r">>,
      <<"p", "r", "o", "d", "u", "c", "t", "e", "u", "r", "f", "e", "r", "m", "e">> }

UpperCase == <<"A", "B", "C", "D", "E", "F", "G", "H", "I", "J", "K", "L", "M",
               "N", "O", "P", "Q", "R", "S", "T", "U", "V", "W", "X", "Y", "Z">>
LowerCase == <<"a", "b", "c", "d", "e", "f", "g", "h", "i", "j", "k", "l", "m",
               "n", "o", "p", "q", "r", "s", "t", "u", "v", "w", "x", "y", "z">>

\* name.lower()
LowerChars(s) ==
    [i \in 1..Len(s) |->
        IF \E n \in 1..26 : UpperCase[n] = s[i]
        THEN LowerCase[CHOOSE n \in 1..26 : UpperCase[n] = s[i]]
        ELSE s[i]]

\* key in name_l
Contains(s, key) ==
    \E i \in 1..(Len(s) - Len(key) + 1) : SubSeq(s, i, i + Len(key) - 1) = key

\* lines 135-136: the type or the name says producer
IsProducer(p) ==
    \/ \E i \in 1..Len(Get(p, "types", <<>>)) : p.types[i] \in PRODUCER_TYPES
    \/ \E key \in PRODUCER_NAME_KEYWORDS :
          Contains(LowerChars(Strip(Get(p, "name", <<>>))), key)

\* keyword_producteurs.txt
keyword_producteurs_txt == <<"producteur bio", "ferme bio">>

prod_fieldnames == <<"name", "address", "city", "postal_code", "rating",
                     "user_ratings_total", "types", "maps_url", "matched_keyword">>

ProdHeaderLine == [kind |-> "header", fields |-> prod_fieldnames]

\* lines 140-157: the row of a place found under keyword kw
ProdRow(p, kw) ==
    LET address == Strip(Get(p, "formatted_address", <<>>))
        cp == producteurs_parse_city_postal(address)
    IN  [kind |-> "row",
         name |-> Strip(Get(p, "name", <<>>)),
         address |-> address,
         city |-> cp.city,
         postal_code |-> cp.postal_code,
         rating |-> Get(p, "rating", ""),
         user_ratings_total |-> Get(p, "user_ratings_total", ""),
         types |-> Join("|", Get(p, "types", <<>>)),
         maps_url |-> build_maps_url(p.place_id),
         matched_keyword |-> kw]

\* lines 127-160, the body of "for place in results": the file and seen after it
ProdObserve(st, p, kw) ==
    LET pid == Get(p, "place_id", "")
    IN  IF pid = "" \/ pid \in st.seen \/ ~IsProducer(p)
        THEN st
        ELSE [file |-> Append(st.file, ProdRow(p, kw)), seen |-> st.seen \cup {pid}]

RECURSIVE ProdMergeAll(_, _, _)
ProdMergeAll(st, results, kw) ==
    IF results = <<>> THEN st
    ELSE ProdMergeAll(ProdObserve(st, results[1], kw), Tail(results), kw)

\* The raw hits the upstream returns: a farm, a shop whose name says
\* "miellerie", a shop whose name says "ferme", a farm without place_id.
PHitFarm == [place_id |-> "p", name |-> <<"X">>, types |-> <<"farm">>,
             formatted_address |-> <<"R", ",", " ", "5", "0", "0", "0", " ", "N">>]
PHitMiel == [place_id |-> "q", name |-> <<"M", "i", "e", "l", "l", "e", "r", "i", "e">>,
             types |-> <<"store">>]
PHitShop == [place_id |-> "s", name |-> <<"F", "e", "r", "m", "e">>,
             types |-> <<"store">>, formatted_address |-> <<"R", ",", " ", "N">>]
PHitNoId == [name |-> <<"Y">>, types |-> <<"farm">>]

\* what the upstream returns for one search, each outcome under a name
ProdOutcomes == {"none", "p", "q s, p n"}

ProdPagesOf(o) ==
    CASE o = "none" -> << <<>> >>
      [] o = "p" -> << <<PHitFarm>> >>
      [] o = "q s, p n" -> << <<PHitMiel, PHitShop>>, <<PHitFarm, PHitNoId>> >>

\* a row an earlier run left for the farm
OldProdRow == ProdRow(PHitFarm, "ferme bio")

InitProd ==
    /\ MainIdle /\ SearchIdle /\ NormIdle /\ ScrapeIdle
    /\ ppc = "import"
    /\ prun = 1
    /\ pupstream \in [1..NumAreas -> [1..Len(keyword_producteurs_txt) -> ProdOutcomes]]
    /\ \/ pdirExists = FALSE /\ pfileExists = FALSE /\ pfile = <<>>
       \/ pdirExists = TRUE /\ pfileExists = TRUE /\ pfile = <<ProdHeaderLine, OldProdRow>>
    /\ pseen = {}
    /\ pci = 0 /\ pki = 0

\* lines 37-39, when the module is loaded: GOOGLE_API_KEY is set
ProdKeyPresent ==
    /\ ppc = "import"
    /\ ppc' = "check"
    /\ UNCHANGED <<prun, pupstream, pdirExists, pfileExists, pfile, pseen, pci, pki,
                   mainVars, searchVars, normVars, scrapeVars>>

\* lines 37-39: GOOGLE_API_KEY is not set, SystemExit
ProdKeyMissing ==
    /\ ppc = "import"
    /\ ppc' = "aborted"
    /\ UNCHANGED <<prun, pupstream, pdirExists, pfileExists, pfile, pseen, pci, pki,
                   mainVars, searchVars, normVars, scrapeVars>>

\* lines 103-108: the two input files exist and are read
ProdInputsPresent ==
    /\ ppc = "check"
    /\ ppc' = "prepare"
    /\ UNCHANGED <<prun, pupstream, pdirExists, pfileExists, pfile, pseen, pci, pki,
                   mainVars, searchVars, normVars, scrapeVars>>

\* lines 103-105: an input file is missing, SystemExit
ProdInputsMissing ==
    /\ ppc = "check"
    /\ ppc' = "aborted"
    /\ UNCHANGED <<prun, pupstream, pdirExists, pfileExists, pfile, pseen, pci, pki,
                   mainVars, searchVars, normVars, scrapeVars>>

\* lines 120-122: seen = set(), whatever the file holds, and the first city begins
ProdBegin ==
    /\ pseen' = {}
    /\ pci' = 1 /\ pki' = 1
    /\ ppc' = "search"

\* lines 110-122: mkdir; the file exists and the loops begin, or it does not
\* and is created, empty
ProdPrepare ==
    /\ ppc = "prepare"
    /\ pdirExists' = TRUE
    /\ pfileExists' = TRUE
    /\ IF pfileExists
       THEN ProdBegin
       ELSE ppc' = "header" /\ UNCHANGED <<pseen, pci, pki>>
    /\ UNCHANGED <<prun, pupstream, pfile, mainVars, searchVars, normVars, scrapeVars>>

\* lines 117-122: the header is written to the file just created; the loops begin
ProdWriteHeader ==
    /\ ppc = "header"
    /\ pfile' = <<ProdHeaderLine>>
    /\ ProdBegin
    /\ UNCHANGED <<prun, pupstream, pdirExists, pfileExists,
                   mainVars, searchVars, normVars, scrapeVars>>

\* lines 124-161, one turn of "for kw in keywords": the search, then a row
\* appended for every hit kept
ProdSearch ==
    /\ ppc = "search"
    /\ LET kw == keyword_producteurs_txt[pki]
           results == places_text_search(ProdPagesOf(pupstream[pci][pki]))
           st == ProdMergeAll([file |-> pfile, seen |-> pseen], results, kw)
       IN  /\ pfile' = st.file
           /\ pseen' = st.seen
    /\ IF pki < Len(keyword_producteurs_txt)
       THEN pki' = pki + 1 /\ pci' = pci /\ ppc' = "search"
       ELSE IF pci < NumAreas
            THEN pki' = 1 /\ pci' = pci + 1 /\ ppc' = "search"
            ELSE pki' = pki /\ pci' = pci /\ ppc' = "done"
    /\ UNCHANGED <<prun, pupstream, pdirExists, pfileExists,
                   mainVars, searchVars, normVars, scrapeVars>>

\* main is interrupted between two searches (a request that fails, Ctrl-C,
\* the process killed); the rows written so far stay in the file
ProdCrash ==
    /\ ppc = "search"
    /\ ppc' = "crashed"
    /\ UNCHANGED <<prun, pupstream, pdirExists, pfileExists, pfile, pseen, pci, pki,
                   mainVars, searchVars, normVars, scrapeVars>>

\* the script is started again on the table the run before left
ProdRestart ==
    /\ ppc \in {"done", "aborted", "crashed"}
    /\ prun < MaxRuns
    /\ prun' = prun + 1
    /\ ppc' = "import"
    /\ pseen' = {}
    /\ pci' = 0 /\ pki' = 0
    /\ UNCHANGED <<pupstream, pdirExists, pfileExists, pfile,
                   mainVars, searchVars, normVars, scrapeVars>>

NextProd ==
    \/ ProdKeyPresent \/ ProdKeyMissing \/ ProdInputsPresent \/ ProdInputsMissing
    \/ ProdPrepare \/ ProdWriteHeader \/ ProdSearch \/ ProdCrash \/ ProdRestart

SpecProd == InitProd /\ [][NextProd]_vars

-----------------------------------------------------------------------------
(* scrape_produits_bio.py: run_scraper, one call.                          *)

EXCLUDE_TYPES == {"courthouse", "local_government_office"}

\* the words forbidden in a name; the third is the empty string
EXCLUDE_NAME_KEYWORDS ==
    {<<"t", "r", "i", "b", "u", "n", "a", "l">>,
     <<"p", "a", "l", "a", "i", "s">>,
     <<>>}

\* the keywords of the command line
scraper_keywords == <<"magasin bio", "marche' fermier">>

\* a courthouse, a place named after a tribunal, a place named after a palace
HitCourt == [place_id |-> "c", name |-> <<"J">>, types |-> <<"courthouse">>]
HitTribunal == [place_id |-> "t",
                name |-> <<"T", "r", "i", "b", "u", "n", "a", "l", " ", "N">>,
                types |-> <<"store">>]
HitPalais == [place_id |-> "l", name |-> <<"p", "a", "l", "a", "i", "s">>]

ExcludedOutcome == "c t, l a"

ScrapeOutcomes == SearchOutcomes \cup {ExcludedOutcome}

ScrapePagesOf(o) ==
    IF o = ExcludedOutcome
    THEN << <<HitCourt, HitTribunal>>, <<HitPalais, HitA>> >>
    ELSE PagesOf(o)

\* lines 152-156: the first occurrence of every non-empty place_id, in order
RECURSIVE Dedup(_, _)
Dedup(u, places) ==
    IF places = <<>> THEN u
    ELSE LET pid == Get(places[1], "place_id", "")
         IN  IF pid # "" /\ \A i \in 1..Len(u) : u[i].place_id # pid
             THEN Dedup(Append(u, places[1]), Tail(places))
             ELSE Dedup(u, Tail(places))

\* lines 163-168: the two tests that skip a normalized place
Excluded(d) ==
    \/ \E i \in 1..Len(d.types) : d.types[i] \in EXCLUDE_TYPES
    \/ \E k \in EXCLUDE_NAME_KEYWORDS : Contains(LowerChars(d.name), k)

\* lines 159-169: filtered after the places of u, or the exception of
\* extract_place_data on the first place it fails on
RECURSIVE FilterAll(_, _)
FilterAll(f, u) ==
    IF u = <<>> THEN [raised |-> FALSE, filtered |-> f]
    ELSE LET d == extract_place_data(u[1])
         IN  IF IsRaised(d) THEN [raised |-> TRUE, filtered |-> f]
             ELSE FilterAll(IF Excluded(d) THEN f ELSE Append(f, d), Tail(u))

scraper_fieldnames == <<"name", "address", "city", "postal_code", "rating",
                        "user_ratings_total", "types", "maps_url">>

ScraperHeaderLine == [kind |-> "header", fields |-> scraper_fieldnames]

\* lines 191-192: the record writerow writes for a place of filtered
ScraperRow(d) ==
    [kind |-> "row",
     name |-> d.name,
     address |-> d.address,
     city |-> d.city,
     postal_code |-> d.postal_code,
     rating |-> d.rating,
     user_ratings_total |-> d.user_ratings_total,
     types |-> Join("|", d.types),
     maps_url |-> d.maps_url]

\* a file an earlier call left at output_path
OldOutput == <<ScraperHeaderLine, ScraperRow(extract_place_data(HitB))>>

InitScrape ==
    /\ MainIdle /\ SearchIdle /\ NormIdle /\ ProdIdle
    /\ rpc = "key"
    /\ rupstream \in [1..Len(scraper_keywords) -> ScrapeOutcomes]
    /\ rki = 0
    /\ all_places = <<>> /\ unique = <<>> /\ filtered = <<>>
    /\ out_file \in {<<>>, OldOutput}
    /\ count = -1

\* line 141: load_api_key returns the key
ScrapeKeyPresent ==
    /\ rpc = "key"
    /\ rpc' = "search" /\ rki' = 1
    /\ UNCHANGED <<rupstream, all_places, unique, filtered, out_file, count,
                   mainVars, searchVars, normVars, prodVars>>

\* line 141: GOOGLE_API_KEY is not set and load_api_key raises SystemExit
ScrapeKeyMissing ==
    /\ rpc = "key"
    /\ rpc' = "aborted"
    /\ UNCHANGED <<rupstream, rki, all_places, unique, filtered, out_file, count,
                   mainVars, searchVars, normVars, prodVars>>

\* lines 144-149, one turn of "for kw in keywords"
ScrapeSearch ==
    /\ rpc = "search"
    /\ all_places' =
          all_places \o fetch_places_for_keyword(ScrapePagesOf(rupstream[rki]))
    /\ IF rki < Len(scraper_keywords)
       THEN rki' = rki + 1 /\ rpc' = "search"
       ELSE rki' = rki /\ rpc' = "dedup"
    /\ UNCHANGED <<rupstream, unique, filtered, out_file, count,
                   mainVars, searchVars, normVars, prodVars>>

\* line 146: a request of the search fails and the exception ends the call
ScrapeSearchFails ==
    /\ rpc = "search"
    /\ rpc' = "crashed"
    /\ UNCHANGED <<rupstream, rki, all_places, unique, filtered, out_file, count,
                   mainVars, searchVars, normVars, prodVars>>

\* lines 152-156
ScrapeDedup ==
    /\ rpc = "dedup"
    /\ unique' = Dedup(<<>>, all_places)
    /\ rpc' = "filter"
    /\ UNCHANGED <<rupstream, rki, all_places, filtered, out_file, count,
                   mainVars, searchVars, normVars, prodVars>>

\* lines 159-169
ScrapeFilter ==
    /\ rpc = "filter"
    /\ ~FilterAll(<<>>, unique).raised
    /\ filtered' = FilterAll(<<>>, unique).filtered
    /\ rpc' = "write"
    /\ UNCHANGED <<rupstream, rki, all_places, unique, out_file, count,
                   mainVars, searchVars, normVars, prodVars>>

\* line 161: extract_place_data raises on a place and the exception ends
\* the call
ScrapeFilterRaises ==
    /\ rpc = "filter"
    /\ FilterAll(<<>>, unique).raised
    /\ rpc' = "crashed"
    /\ UNCHANGED <<rupstream, rki, all_places, unique, filtered, out_file, count,
                   mainVars, searchVars, normVars, prodVars>>

\* lines 172-194: the file opened with "w", the header, one row per place
\* of filtered, and the count returned
ScrapeWrite ==
    /\ rpc = "write"
    /\ out_file' = <<ScraperHeaderLine>> \o
                       [i \in 1..Len(filtered) |-> ScraperRow(filtered[i])]
    /\ count' = Len(filtered)
    /\ rpc' = "returned"
    /\ UNCHANGED <<rupstream, rki, all_places, unique, filtered,
                   mainVars, searchVars, normVars, prodVars>>

NextScrape ==
    \/ ScrapeKeyPresent \/ ScrapeKeyMissing
    \/ ScrapeSearch \/ ScrapeSearchFails
    \/ ScrapeDedup
    \/ ScrapeFilter \/ ScrapeFilterRaises
    \/ ScrapeWrite

SpecScrape == InitScrape /\ [][NextScrape]_vars

\* C17: producteurs.csv never holds two rows for one place_id, whether main
\* started on an absent table or on one that holds rows of an earlier run.
C17_OneRowPerProducer ==
    \A i, j \in 2..Len(pfile) : i # j => pfile[i].maps_url # pfile[j].maps_url

-----------------------------------------------------------------------------
(* What the claims about main speak of.                                    *)

UrlOf(id) == "https://www.google.com/maps/place/?q=place_id:" \o id

\* the number of rows of f with this maps_url
RowCount(f, url) ==
    Cardinality({i \in 2..Len(f) : f[i].kind = "row" /\ f[i].maps_url = url})

NoDuplicateUrl(f) ==
    \A i, j \in 2..Len(f) : i # j => f[i].maps_url # f[j].maps_url

IsPrefix(f, g) == Len(f) <= Len(g) /\ SubSeq(g, 1, Len(f)) = f

\* the non-empty identifiers among the hits of each outcome
OutcomeIds ==
    [o \in SearchOutcomes \cup ScenarioOutcomes |->
        LET hits == fetch_places_for_keyword(PagesOf(o))
        IN  {Get(hits[i], "place_id", "") : i \in 1..Len(hits)} \ {""}]

\* the non-empty identifiers the search of keywords[k] in city c returns
IdsOf(c, k) == OutcomeIds[upstream[c][k]]

AreaIds(c) == UNION {IdsOf(c, k) : k \in 1..NumKw}

\* the lowercased keywords whose search in city c returned id
ObservedKeywords(c, id) ==
    {Lower(keywords[k]) : k \in {k \in 1..NumKw : id \in IdsOf(c, k)}}

\* the matched_keywords column of a row for a set of keywords
KeywordsColumn(S) ==
    CASE S = {"magasin bio"} -> "magasin bio"
      [] S = {"miel bio"} -> "miel bio"
      [] S = {"magasin bio", "miel bio"} -> "magasin bio;miel bio"
      [] OTHER -> ""

\* the append pass of city ci has written every entry of city_data
FlushComplete == pc = "flush" /\ fi = Len(city_data) + 1

\* the file as it was when city ci began, and the rows appended for it since
AreaBase == SubSeq(file, 1, Len(file) - (fi - 1))
AreaRows == SubSeq(file, Len(file) - (fi - 1) + 1, Len(file))

\* the rows of rows with this maps_url
RowsFor(rows, url) == {i \in 1..Len(rows) : rows[i].maps_url = url}

\* C1: the table never holds a maps_url in two rows, and every step leaves
\* the rows already in the file as they are and where they are.
C1_NoDuplicateAppendOnly ==
    [](NoDuplicateUrl(file)) /\ [][IsPrefix(file, file')]_vars

\* a run has ended whose two cities both returned place a, on a table that
\* held place b from the start
C1_Witness ==
    /\ pc = "done"
    /\ file0 = <<HeaderLine, OldRow>>
    /\ "a" \in AreaIds(1) /\ "a" \in AreaIds(2) /\ "b" \in AreaIds(2)
    /\ RowCount(file, UrlOf("a")) = 1

\* C2: a run started on the table a completed run left, against the same
\* upstream, appends nothing: the file stays as the run found it.
C2_Idempotent == prev = "done" => file = file0

\* a second run has ended on a table with rows of the first
C2_Witness ==
    /\ prev = "done" /\ pc = "done"
    /\ RowCount(file, UrlOf("a")) = 1 /\ RowCount(file, UrlOf("b")) = 1
    /\ "a" \in AreaIds(1) /\ "b" \in AreaIds(2)

\* C3 as stated: at the end of a city's append pass, every identifier the
\* city's searches returned has exactly one row among the rows appended for
\* that city, with the keywords whose search returned it.
C3_OneRowPerObservedId ==
    FlushComplete =>
        \A id \in AreaIds(ci) :
            /\ Cardinality(RowsFor(AreaRows, UrlOf(id))) = 1
            /\ \A i \in RowsFor(AreaRows, UrlOf(id)) :
                 AreaRows[i].matched_keywords = KeywordsColumn(ObservedKeywords(ci, id))

\* C3 as amended: at the end of a city's append pass, every identifier the
\* city's searches returned that was not in the table when the city began has
\* exactly one row among the rows appended for that city, with exactly the
\* lowercased keywords whose search returned it; an identifier that was in
\* the table has none.
C3_OneRowPerNewId ==
    FlushComplete =>
        \A id \in AreaIds(ci) :
            IF UrlOf(id) \in ReadUrls(AreaBase)
            THEN RowsFor(AreaRows, UrlOf(id)) = {}
            ELSE /\ Cardinality(RowsFor(AreaRows, UrlOf(id))) = 1
                 /\ \A i \in RowsFor(AreaRows, UrlOf(id)) :
                      AreaRows[i].matched_keywords =
                          KeywordsColumn(ObservedKeywords(ci, id))

\* the append pass of a city is over in which both keywords returned place a,
\* only one returned place b, and neither was in the table
C3_Witness ==
    /\ FlushComplete
    /\ ObservedKeywords(ci, "a") = {"magasin bio", "miel bio"}
    /\ ObservedKeywords(ci, "b") = {"miel bio"}
    /\ Len(AreaRows) = 2

\* the identifiers of cities lo..hi
IdsOfAreas(lo, hi) == UNION {AreaIds(c) : c \in lo..hi}

\* C4: from the end of the append pass of city i to the start of the next
\* one, also after a crash in between, the table holds a row for every new
\* identifier (not in the table when the run began) observed in cities 1..i
\* and no row for a new identifier first observed in a later city.
C4_IncrementalDurability ==
    (pc = "fetch" \/ (pc = "crashed" /\ fi = 0)) =>
        /\ \A id \in IdsOfAreas(1, ci - 1) :
             UrlOf(id) \notin ReadUrls(file0) => RowCount(file, UrlOf(id)) = 1
        /\ \A id \in IdsOfAreas(ci, NumCities) \ IdsOfAreas(1, ci - 1) :
             UrlOf(id) \notin ReadUrls(file0) => RowCount(file, UrlOf(id)) = 0

\* the run crashed in the keyword loop of city 2, after city 1 brought the
\* new place a and the first search of city 2 the new place b
C4_Witness ==
    /\ pc = "crashed" /\ fi = 0 /\ ci = 2 /\ ki = 2
    /\ file0 = <<>>
    /\ "a" \in AreaIds(1) /\ "b" \notin AreaIds(1) /\ "b" \in IdsOf(2, 1)
    /\ RowCount(file, UrlOf("a")) = 1

\* C5: after a crash in the append pass of a city the table holds all the
\* rows of that city or none of them.
C5_AtomicFlush ==
    (pc = "crashed" /\ fi >= 1) => (fi - 1 = 0 \/ fi - 1 = Len(city_data))

\* C6: a run started after a crash never appends a row whose maps_url is
\* already in the table, and when it ends every identifier the upstream
\* returns for any city and keyword has exactly one row.
C6_RestartNoDuplicate ==
    /\ [][(prev' = "crashed" /\ file' # file) =>
            /\ file' = Append(file, file'[Len(file')])
            /\ file'[Len(file')].kind = "row"
            /\ file'[Len(file')].maps_url \notin ReadUrls(file)]_vars
    /\ []((prev = "crashed" /\ pc = "done") =>
            \A id \in IdsOfAreas(1, NumCities) : RowCount(file, UrlOf(id)) = 1)

\* a run has ended that was started on a table a crash left with the row of
\* place b of a city and without that of place a of the same city
C6_Witness ==
    /\ prev = "crashed" /\ pc = "done"
    /\ Len(file0) = 2 /\ file0[2].maps_url = UrlOf("b") /\ file0[2] # OldRow
    /\ {"a", "b"} \subseteq AreaIds(1)
    /\ RowCount(file, UrlOf("a")) = 1 /\ RowCount(file, UrlOf("b")) = 1

\* C9: a hit whose place_id is missing or empty creates no entry of
\* city_data and no row of the table.
C9_RejectsMissingId ==
    /\ \A i \in 1..Len(city_data) : city_data[i].place_id # ""
    /\ \A i \in 2..Len(file) : file[i].maps_url # UrlOf("")

\* the events that issue requests, and the waits of line 130
IsRequesting(e) == e[1] \in {"search", "fail"}
ThrottleWaits == {i \in 1..Len(events) : events[i][1] = "sleep"}

\* C13: a search that is not the first of its run comes after a wait of
\* 1.0 s that followed the search before it (whatever that search returned),
\* with at most the append pass of a city in between; and a run that ends
\* has waited once per city and keyword.
C13_Throttle ==
    /\ \A j \in 2..Len(events) :
          IsRequesting(events[j]) =>
              LET i == IF events[j - 1][1] = "flush" THEN j - 2 ELSE j - 1
              IN  /\ i >= 2
                  /\ events[i] = <<"sleep", KeywordDelay>>
                  /\ IsRequesting(events[i - 1])
    /\ pc = "done" => Cardinality(ThrottleWaits) = NumCities * NumKw

\* a run has ended whose first search returned no hit and whose second
\* returned two pages
C13_Witness ==
    /\ pc = "done"
    /\ upstream[1][1] = "none"
    /\ Len(Pages(1, 2)) = 2
    /\ Cardinality(ThrottleWaits) = 4

LastEvent == events[Len(events)]

\* the last thing the run did is a search of which a request failed
Failed == events # <<>> /\ LastEvent[1] = "fail"

\* C14: a search of which a page request fails is the last thing its run
\* does: no request follows, of that search or of a later one, and main has
\* ended (no retry); the step of the failure leaves city_data, existing_urls
\* and the table as they were, so no hit of the pages before the failed one
\* is merged; and after it the table still holds one row for every
\* identifier of the cities before and none for an identifier first seen in
\* the city of the failure.
C14_FailurePropagates ==
    /\ [](\A i \in 1..Len(events) :
            events[i][1] = "fail" => (i = Len(events) /\ pc = "crashed"))
    /\ [][(events' # events /\ events' # <<>> /\ events'[Len(events')][1] = "fail") =>
            /\ events' = Append(events, <<"fail", ci, ki, events'[Len(events')][4]>>)
            /\ events'[Len(events')][4] \in 1..Len(Pages(ci, ki))
            /\ city_data' = city_data
            /\ existing_urls' = existing_urls
            /\ file' = file]_vars
    /\ [](Failed =>
            /\ \A id \in IdsOfAreas(1, ci - 1) :
                 UrlOf(id) \notin ReadUrls(file0) => RowCount(file, UrlOf(id)) = 1
            /\ \A id \in AreaIds(ci) \ IdsOfAreas(1, ci - 1) :
                 UrlOf(id) \notin ReadUrls(file0) => RowCount(file, UrlOf(id)) = 0)

\* the request of the second page of a search of city 2 has failed, after
\* city 1 brought the row of place a; place b, on the first page, has no row
C14_Witness ==
    /\ Failed
    /\ LastEvent[2] = 2 /\ LastEvent[4] = 2
    /\ file0 = <<>>
    /\ RowCount(file, UrlOf("a")) = 1
    /\ "b" \in IdsOf(2, LastEvent[3])
    /\ RowCount(file, UrlOf("b")) = 0

\* C15: a run that a missing input file or a missing API key aborts has
\* issued no request and leaves the table as it found it: the file it found
\* unchanged, and no file and no directory created where the first run found none.
C15_AbortLeavesNothing ==
    pc = "aborted" =>
        /\ events = <<>>
        /\ file = file0
        /\ fileExists = (file0 # <<>>)
        /\ (run = 1 /\ file0 = <<>>) => ~dirExists

\* C16: when a run has ended, whatever runs came before it on the same
\* table (completed, aborted, interrupted), the table has exactly one header
\* row, and it is its first row.
C16_OneHeaderFirst ==
    (pc = "done" /\ fileExists) =>
        /\ file # <<>>
        /\ file[1] = HeaderLine
        /\ \A i \in 2..Len(file) : file[i].kind = "row"

\* The n-th thing a run does when it visits the cities in order and, in each
\* city, the keywords in order: for every city one search and one wait per
\* keyword, then its append pass.
ExpectedEvent(n) ==
    LET block == 2 * NumKw + 1
        c == ((n - 1) \div block) + 1
        r == (n - 1) % block
    IN  IF r = 2 * NumKw THEN <<"flush", c>>
        ELSE IF r % 2 = 0 THEN <<"search", c, (r \div 2) + 1>>
        ELSE <<"sleep", KeywordDelay>>

\* what events[n] is, the number of requests of a search and its failure apart
EventKind(n) ==
    IF IsRequesting(events[n])
    THEN <<"search", events[n][2], events[n][3]>>
    ELSE events[n]

\* the searches and append passes of the run are in that order so far
InOrder == \A n \in 1..Len(events) : EventKind(n) = ExpectedEvent(n)

\* every city has been searched under every keyword and flushed, once
AllFlushed == pc = "done" /\ InOrder /\ Len(events) = NumCities * (2 * NumKw + 1)

\* C18: a run visits the (city, keyword) pairs one after the other, cities
\* outer and keywords inner, with exactly one search per pair, and runs the
\* append pass of a city after the search of its last keyword and before the
\* first search of the next city; a step of the keyword loop leaves the
\* table and existing_urls unchanged; and a run that every search returns to
\* ends nowhere but at the end of main, with every city flushed exactly once.
C18_Orchestrator ==
    /\ []InOrder
    /\ [][pc = "fetch" => (file' = file /\ existing_urls' = existing_urls)]_vars
    /\ [](pc \in {"done", "crashed"} => AllFlushed)

\* the first city whose searches return id
FirstCity(id) ==
    CHOOSE c \in 1..NumCities :
        id \in AreaIds(c) /\ \A c2 \in 1..(c - 1) : id \notin AreaIds(c2)

\* C19: an identifier that has a row in the table, from before the run or
\* from the append pass of an earlier city, gets no second row when a later
\* city returns it again, and its row stays as it was written: a row the run
\* found is unchanged and in its place, a row the run wrote carries the
\* keywords of the first city that returned the identifier and none of a
\* later city.
C19_CrossAreaDedup ==
    pc \in {"flush", "done"} =>
        /\ IsPrefix(file0, file)
        /\ \A i \in 2..Len(file) : i > Len(file0) =>
              /\ file[i].maps_url \notin ReadUrls(SubSeq(file, 1, i - 1))
              /\ \A id \in IdsOfAreas(1, NumCities) :
                    file[i].maps_url = UrlOf(id) =>
                        file[i].matched_keywords =
                            KeywordsColumn(ObservedKeywords(FirstCity(id), id))

\* a run has ended, on a table that held place b, in which city 1 returned
\* place a under "magasin bio" only and city 2 returned a and b under "miel
\* bio": a has one row, with "magasin bio" alone, and b the row the run found
C19_Witness ==
    /\ pc = "done" /\ run = 1
    /\ file0 = <<HeaderLine, OldRow>>
    /\ upstream[1] = <<"a", "none">>
    /\ upstream[2][2] = "b a2, b"
    /\ Len(file) = 3
    /\ file[3].maps_url = UrlOf("a")
    /\ file[3].matched_keywords = "magasin bio"

-----------------------------------------------------------------------------
(* The entries of city_data across the observations of one city.           *)

RecordFields == {"name", "address", "city", "postal_code", "maps_url"}
TagFields == {"matched_keywords", "place_category", "product_category"}

SameRecord(e, d) == \A f \in RecordFields : e[f] = d[f]

\* every entry of cd is in cd2 at its place, its record fields the same and
\* each of its tag sets a subset of what it is in cd2
Grows(cd, cd2) ==
    /\ Len(cd) <= Len(cd2)
    /\ \A i \in 1..Len(cd) :
          /\ SameRecord(cd2[i], cd[i])
          /\ \A t \in TagFields : cd[i][t] \subseteq cd2[i][t]

\* the hits of the searches of keywords 1..k in city c, in the order returned
RECURSIVE AreaHits(_, _)
AreaHits(c, k) ==
    IF k = 0 THEN <<>>
    ELSE AreaHits(c, k - 1) \o fetch_places_for_keyword(Pages(c, k))

\* the first of these hits with this URL, normalized
FirstObservation(c, k, url) ==
    LET hs == AreaHits(c, k)
        at == {n \in 1..Len(hs) : UrlOf(Get(hs[n], "place_id", "")) = url}
    IN  extract_place_data(hs[CHOOSE n \in at : \A o \in at : n <= o])

\* the keywords of city ci already searched and merged
Searched == IF pc = "flush" THEN NumKw ELSE ki - 1

\* C20: within a city, every observation leaves each entry of city_data
\* with the same name, address, city, postal code and URL and with each of
\* its three tag sets a superset of what it was, hit by hit and keyword by
\* keyword; and the record fields of an entry are those of the first hit of
\* the city that has its URL.
C20_TagSetsGrow ==
    /\ [](pc = "fetch" =>
            LET lckw == Lower(keywords[ki])
                hits == fetch_places_for_keyword(Pages(ci, ki))
            IN  \A n \in 1..Len(hits) :
                    LET before == MergeAll(city_data, SubSeq(hits, 1, n - 1),
                                           lckw, existing_urls)
                        d == extract_place_data(hits[n])
                    IN  (~before.raised /\ ~IsRaised(d)) =>
                            Grows(before.city_data,
                                  Observe(before.city_data, d, lckw, existing_urls)))
    /\ [][(pc = "fetch" /\ pc' \in {"fetch", "flush"}) =>
              Grows(city_data, city_data')]_vars
    /\ [](pc \in {"fetch", "flush"} =>
            \A i \in 1..Len(city_data) :
                SameRecord(city_data[i],
                           FirstObservation(ci, Searched, city_data[i].maps_url)))

\* place a was found as "F" under the first keyword and again as "G" under
\* the second: its entry keeps the name "F" and has both keywords
C20_Witness ==
    /\ pc = "flush"
    /\ upstream[ci][1] = "a" /\ upstream[ci][2] = "b a2, b"
    /\ \E i \in 1..Len(city_data) :
          /\ city_data[i].maps_url = UrlOf("a")
          /\ city_data[i].name = <<"F">>
          /\ city_data[i].matched_keywords = {"magasin bio", "miel bio"}
          /\ city_data[i].place_category = {"Epicerie"}
          /\ city_data[i].product_category = {"Miels artisanaux et locaux"}

-----------------------------------------------------------------------------
(* The exclusion filter of run_scraper.                                    *)

\* the words the filter is said to forbid
ForbiddenWords ==
    {<<"t", "r", "i", "b", "u", "n", "a", "l">>, <<"p", "a", "l", "a", "i", "s">>}

\* the first hit of all_places with this place_id
FirstHit(id) ==
    all_places[CHOOSE n \in 1..Len(all_places) :
                  /\ Get(all_places[n], "place_id", "") = id
                  /\ \A o \in 1..(n - 1) : Get(all_places[o], "place_id", "") # id]

\* a hit is to be excluded: a type of the exclusion set, or a forbidden word
\* in its lowercase name
ToExclude(p) ==
    \/ \E i \in 1..Len(Get(p, "types", <<>>)) :
          p.types[i] \in {"courthouse", "local_government_office"}
    \/ \E w \in ForbiddenWords :
          Contains(LowerChars(Strip(Get(p, "name", <<>>))), w)

ReturnedIds ==
    {Get(all_places[n], "place_id", "") : n \in 1..Len(all_places)} \ {""}

\* C21: when run_scraper has returned, every distinct non-empty place_id
\* returned has no row if its first hit has an excluded type or a forbidden
\* word in its name and exactly one row otherwise, there is no other row,
\* and the count returned is the number of rows.
C21_ExclusionFilter ==
    rpc = "returned" =>
        /\ \A id \in ReturnedIds :
              Cardinality({i \in 2..Len(out_file) : out_file[i].maps_url = UrlOf(id)})
                  = IF ToExclude(FirstHit(id)) THEN 0 ELSE 1
        /\ \A i \in 2..Len(out_file) :
              \E id \in ReturnedIds : out_file[i].maps_url = UrlOf(id)
        /\ count = Len(out_file) - 1

-----------------------------------------------------------------------------
(* existing_urls and city_data against the table.                          *)

\* the maps_url values of the rows of the table
TableUrls ==
    {file[i].maps_url : i \in {i \in 1..Len(file) : file[i].kind = "row"}}

\* C22: once existing_urls is loaded and whenever the append pass of a city
\* is complete (through the keyword loop that follows, to the end of main),
\* existing_urls is exactly the set of the maps_url values of the rows of
\* the table.
C22_SeenMirrorsTable ==
    (pc \in {"fetch", "done"} \/ FlushComplete) => existing_urls = TableUrls

\* a second run was started on a table of two rows and the append pass of
\* its first city has added a row
C22_Witness ==
    /\ run = 2 /\ pc = "fetch" /\ ci = 2
    /\ Len(file0) = 3 /\ Len(file) > Len(file0)
    /\ Cardinality(existing_urls) = Len(file) - 1

\* the keys of city_data
Keys(cd) == {cd[i].maps_url : i \in 1..Len(cd)}

\* C23: city_data is empty when the keyword loop of a city begins; all
\* through that loop no key of city_data is in existing_urls; and the append
\* pass, which tests nothing, never writes a row whose maps_url the table
\* already holds.
C23_AreaScopedAccumulator ==
    /\ []((pc = "fetch" /\ ki = 1) => city_data = <<>>)
    /\ [](pc = "fetch" => Keys(city_data) \cap existing_urls = {})
    /\ [][(pc = "flush" /\ Len(file') > Len(file)) =>
              /\ Len(file') = Len(file) + 1
              /\ file'[Len(file')].maps_url \notin TableUrls]_vars

\* the second city returned place a again, which the first city had written,
\* and a place of its own, of which the append pass has written the row
C23_Witness ==
    /\ pc = "flush" /\ ci = 2 /\ fi = 2
    /\ UrlOf("a") \in existing_urls /\ "a" \in AreaIds(2)
    /\ UrlOf("a") \notin Keys(city_data)
    /\ city_data[1].maps_url \in TableUrls

=============================================================================
